---- MODULE Spec2Model ----
(***************************************************************************)
(* Model of chatdb.py: a Streamlit script whose main() is re-run from the  *)
(* top on every UI interaction.  One invocation of main() walks through    *)
(* sidebar configuration, connection, schema introspection, the question,  *)
(* the model call, JSON parsing, SQL normalisation, execution and          *)
(* rendering.  An uncaught Python exception ends the invocation with       *)
(* fault # "none".                                                         *)
(***************************************************************************)
EXTENDS Integers, Sequences, FiniteSets, TLC

VARIABLES
  pc,          \* position of the current invocation of main()
  env,         \* what the sidebar widgets / environment hold in this invocation
  db_conn,     \* main's local db_conn: "None" or "Conn"
  db_info,     \* main's local db_info: "unbound" or "schema"
  response,    \* what chatCompletion returned
  content,     \* json.loads of the first choice's content
  sql,         \* the normalised statement
  data,        \* what loadData returned
  shown,       \* sequence of widgets rendered in this invocation
  fault,       \* uncaught exception of this invocation, "none" if none
  modelCalls,  \* calls of chatCompletion in this invocation
  loadCalls,   \* statements passed to loadData in this invocation
  opened,      \* connections opened by connectDB during the session
  invocations  \* invocations of main() during the session

vars == <<pc, env, db_conn, db_info, response, content, sql, data, shown,
          fault, modelCalls, loadCalls, opened, invocations>>

----------------------------------------------------------------------------
(* Bounds *)

MaxInvocations == 2
MaxListLen == 2
MaxCols == 2
MaxRows == 1

----------------------------------------------------------------------------
(* Values *)

db_options == {"MySQL", "PostgreSQL", "BigQuery"}

SeqsUpTo(S, n) == UNION {[1..k -> S] : k \in 0..n}

\* The strings the model may put in SQL_codes, as sequences of characters:
\* empty, a word, a word with a trailing blank.
SqlStrings == {<<>>, <<"a">>, <<"b", " ">>}

SqlLists == SeqsUpTo(SqlStrings, MaxListLen)

\* content["SQL_codes"]: absent, a plain string, or a list of strings.
SqlCodes ==
  {[kind |-> "absent", str |-> <<>>, list |-> <<>>]}
  \cup {[kind |-> "str", str |-> s, list |-> <<>>] : s \in SqlStrings}
  \cup {[kind |-> "list", str |-> <<>>, list |-> l] : l \in SqlLists}

\* JSON values the model may put under diagram_available.
DiagramAvailableValues ==
  { [t |-> "absent", v |-> ""],
    [t |-> "bool", v |-> "true"], [t |-> "bool", v |-> "false"],
    [t |-> "str", v |-> "yes"], [t |-> "str", v |-> "no"],
    [t |-> "str", v |-> ""], [t |-> "num", v |-> "1"] }

DiagramTypes == {"absent", "line", "bar", "pie", "hist"}

NoContent ==
  [kind |-> "none", hasError |-> FALSE, hasResponse |-> FALSE,
   sql |-> [kind |-> "absent", str |-> <<>>, list |-> <<>>],
   da |-> [t |-> "absent", v |-> ""], dt |-> "absent"]

\* What json.loads makes of the first choice's text: a JSON object with some
\* of the recognised keys, a JSON value that is not an object, or nothing
\* (the text is not JSON).
Contents ==
  {[NoContent EXCEPT !.kind = k] : k \in {"unparseable", "nonobject"}}
  \cup [kind : {"object"}, hasError : BOOLEAN, hasResponse : BOOLEAN,
        sql : SqlCodes, da : DiagramAvailableValues, dt : DiagramTypes]

NoResponse == [api |-> "none", text |-> NoContent]

\* Outcomes of openai.ChatCompletion.create.
Responses ==
  {[api |-> "nochoices", text |-> NoContent]}
  \cup {[api |-> "choices", text |-> c] : c \in Contents}

NoData == [kind |-> "unset", ncols |-> 0, nrows |-> 0, numeric |-> FALSE]

\* DataFrames pd.read_sql can return: at least one column, any number of rows;
\* numeric says whether the first cell is a number.
Tables ==
  [kind : {"table"}, ncols : 1..MaxCols, nrows : 0..MaxRows, numeric : BOOLEAN]

\* The sidebar state of one invocation.  keyPathSet and tablesEnvSet are only
\* read on the BigQuery branch.
Envs ==
  { e \in [db_selection : db_options, fieldsPresent : BOOLEAN,
           keyPathSet : BOOLEAN, tablesEnvSet : BOOLEAN,
           credsOk : BOOLEAN, reachable : BOOLEAN, input : BOOLEAN] :
      e.db_selection # "BigQuery" => (~e.keyPathSet /\ ~e.tablesEnvSet) }

NoEnv ==
  [db_selection |-> "MySQL", fieldsPresent |-> FALSE, keyPathSet |-> FALSE,
   tablesEnvSet |-> FALSE, credsOk |-> FALSE, reachable |-> FALSE,
   input |-> FALSE]

----------------------------------------------------------------------------
(* Pure helpers *)

\* Faulty variant of the join: "".join, no separator.
RECURSIVE JoinNoSep(_)
JoinNoSep(l) ==
  IF Len(l) = 0 THEN <<>> ELSE l[1] \o JoinNoSep(Tail(l))

\* " ".join(content["SQL_codes"])
RECURSIVE JoinSpace(_)
JoinSpace(l) ==
  IF Len(l) = 0 THEN <<>>
  ELSE IF Len(l) = 1 THEN l[1]
  ELSE l[1] \o <<" ">> \o JoinSpace(Tail(l))

\* lines 182-185
Normalize(codes) ==
  IF codes.kind = "list" THEN JoinSpace(codes.list) ELSE codes.str

\* Faulty variant of the error test: error honoured only without SQL_codes.
HasErrorKeyOnlyWithoutSql(c) == c.hasError /\ c.sql.kind = "absent"

\* 'error' in content
HasErrorKey(c) == c.hasError

\* Faulty variant of the connection test: the test is missing.
NeverNotConnected(conn) == FALSE

\* not db_conn
IsNotConnected(conn) == conn = "None"

\* content["diagram_available"] == "yes" or content["diagram_available"] is True
DiagramRequested(da) ==
  \/ (da.t = "str" /\ da.v = "yes")
  \/ (da.t = "bool" /\ da.v = "true")

Fail(f) ==
  /\ fault' = f
  /\ pc' = "done"

----------------------------------------------------------------------------
(* State *)

Init ==
  /\ pc = "idle"
  /\ env = NoEnv
  /\ db_conn = "None"
  /\ db_info = "unbound"
  /\ response = NoResponse
  /\ content = NoContent
  /\ sql = <<>>
  /\ data = NoData
  /\ shown = <<>>
  /\ fault = "none"
  /\ modelCalls = 0
  /\ loadCalls = <<>>
  /\ opened = 0
  /\ invocations = 0

\* A UI interaction re-runs the script: main() starts with db_conn = None
\* (line 121) and nothing of the previous invocation's locals.
Rerun ==
  /\ pc \in {"idle", "done"}
  /\ invocations < MaxInvocations
  /\ invocations' = invocations + 1
  /\ \E e \in Envs : env' = e
  /\ pc' = "sidebar"
  /\ db_conn' = "None"
  /\ db_info' = "unbound"
  /\ response' = NoResponse
  /\ content' = NoContent
  /\ sql' = <<>>
  /\ data' = NoData
  /\ shown' = <<>>
  /\ fault' = "none"
  /\ modelCalls' = 0
  /\ loadCalls' = <<>>
  /\ UNCHANGED opened

\* Lines 125-155.  On the BigQuery branch key_file_content is bound only when
\* GCP_KEY_PATH is set, and os.getenv("BIGQUERY_TABLES") is None when unset.
Sidebar ==
  /\ pc = "sidebar"
  /\ IF env.db_selection = "BigQuery" /\ ~env.keyPathSet
       THEN Fail("NameError")
     ELSE IF env.db_selection = "BigQuery" /\ ~env.tablesEnvSet
       THEN Fail("AttributeError")
     ELSE pc' = "connect" /\ UNCHANGED fault
  /\ UNCHANGED <<env, db_conn, db_info, response, content, sql, data, shown,
                 modelCalls, loadCalls, opened, invocations>>

\* The conditions of lines 158 and 162.
ConnectsRelational(e) == e.db_selection = "MySQL" /\ e.fieldsPresent

ConnectsBigQuery(e) == e.db_selection = "BigQuery" /\ e.fieldsPresent

\* Lines 158-164: connectDB, or neither branch.
Connect ==
  /\ pc = "connect"
  /\ IF ConnectsRelational(env) THEN
       \* connectDB, else branch: engine.connect() inside try/except
       IF env.credsOk /\ env.reachable
         THEN /\ db_conn' = "Conn"
              /\ opened' = opened + 1
              /\ shown' = shown
              /\ pc' = "introspect"
              /\ UNCHANGED fault
         ELSE /\ db_conn' = "None"
              /\ shown' = Append(shown, "error:connect")
              /\ pc' = "introspect"
              /\ UNCHANGED <<opened, fault>>
     ELSE IF ConnectsBigQuery(env) THEN
       \* connectDB, BigQuery branch: no try; the client is built offline
       IF env.credsOk
         THEN /\ db_conn' = "Conn"
              /\ opened' = opened + 1
              /\ pc' = "introspect"
              /\ UNCHANGED <<shown, fault>>
         ELSE /\ Fail("ValueError")
              /\ UNCHANGED <<db_conn, opened, shown>>
     ELSE /\ pc' = "question"
          /\ UNCHANGED <<db_conn, opened, shown, fault>>
  /\ UNCHANGED <<env, db_info, response, content, sql, data, modelCalls,
                 loadCalls, invocations>>

\* Lines 161 and 165: collectDBInfo.
Introspect ==
  /\ pc = "introspect"
  /\ IF env.db_selection = "BigQuery" THEN
       \* _collectBigQueryTableInfo: get_table is the first network call
       IF env.reachable
         THEN db_info' = "schema" /\ pc' = "question" /\ UNCHANGED fault
         ELSE Fail("GoogleAPIError") /\ UNCHANGED db_info
     ELSE
       IF db_conn = "None"
         THEN Fail("Exception: Not connect to any database.") /\ UNCHANGED db_info
         ELSE db_info' = "schema" /\ pc' = "question" /\ UNCHANGED fault
  /\ UNCHANGED <<env, db_conn, response, content, sql, data, shown,
                 modelCalls, loadCalls, opened, invocations>>

\* Lines 167-171.
Question ==
  /\ pc = "question"
  /\ IF ~env.input
       THEN pc' = "done" /\ UNCHANGED shown
     ELSE IF IsNotConnected(db_conn)
       THEN pc' = "done" /\ shown' = Append(shown, "error:notconnected")
     ELSE pc' = "synthesize" /\ UNCHANGED shown
  /\ UNCHANGED <<env, db_conn, db_info, response, content, sql, data, fault,
                 modelCalls, loadCalls, opened, invocations>>

\* Lines 172-173: chatCompletion(db_info, input).  db_info is unbound when no
\* branch of lines 158-165 ran.
Synthesize ==
  /\ pc = "synthesize"
  /\ IF db_info = "unbound"
       THEN /\ Fail("UnboundLocalError")
            /\ UNCHANGED <<response, modelCalls>>
       ELSE /\ modelCalls' = modelCalls + 1
            /\ \/ Fail("OpenAIError") /\ UNCHANGED response
               \/ \E r \in Responses :
                    response' = r /\ pc' = "parse" /\ UNCHANGED fault
  /\ UNCHANGED <<env, db_conn, db_info, content, sql, data, shown,
                 loadCalls, opened, invocations>>

\* Lines 175-180 and 214-215.
Parse ==
  /\ pc = "parse"
  /\ IF response.api = "nochoices"
       THEN /\ shown' = Append(shown, "error:novalid")
            /\ pc' = "done"
            /\ UNCHANGED <<content, fault>>
     ELSE IF response.text.kind = "unparseable"
       THEN Fail("JSONDecodeError") /\ UNCHANGED <<content, shown>>
     ELSE IF response.text.kind = "nonobject"
       THEN /\ content' = response.text
            /\ Fail("TypeError")
            /\ UNCHANGED shown
     ELSE /\ content' = response.text
          /\ IF HasErrorKey(response.text)
               THEN /\ shown' = Append(shown, "error:model")
                    /\ pc' = "done"
               ELSE /\ pc' = "normalize"
                    /\ UNCHANGED shown
          /\ UNCHANGED fault
  /\ UNCHANGED <<env, db_conn, db_info, response, sql, data, modelCalls,
                 loadCalls, opened, invocations>>

\* Lines 182-185.
NormalizeSql ==
  /\ pc = "normalize"
  /\ IF content.sql.kind = "absent"
       THEN Fail("KeyError") /\ UNCHANGED sql
       ELSE sql' = Normalize(content.sql) /\ pc' = "execute" /\ UNCHANGED fault
  /\ UNCHANGED <<env, db_conn, db_info, response, content, data, shown,
                 modelCalls, loadCalls, opened, invocations>>

\* What loadData returns when the query succeeds (lines 111-115): the
\* BigQuery branch prints the job and falls off the end.
LoadResults(db_type) ==
  IF db_type = "BigQuery"
    THEN {[NoData EXCEPT !.kind = "None"]}
    ELSE Tables

\* Lines 187-188: loadData(db_conn, db_selection, sql).
Execute ==
  /\ pc = "execute"
  /\ loadCalls' = Append(loadCalls, sql)
  /\ IF db_conn = "None"
       THEN Fail("Exception: Not connect to any database.") /\ UNCHANGED data
       ELSE \/ Fail("ExecutionError") /\ UNCHANGED data
            \/ \E d \in LoadResults(env.db_selection) :
                 data' = d /\ pc' = "render" /\ UNCHANGED fault
  /\ UNCHANGED <<env, db_conn, db_info, response, content, sql, shown,
                 modelCalls, opened, invocations>>

Expanders == <<"expander:data", "expander:response">>

ChartTypes == {"line", "bar", "pie"}

\* Lines 190-211.
Render ==
  /\ pc = "render"
  /\ IF content.da.t = "absent" THEN
       Fail("KeyError") /\ UNCHANGED shown
     ELSE IF DiagramRequested(content.da) THEN
       IF content.dt = "absent" THEN
         Fail("KeyError") /\ UNCHANGED shown
       ELSE IF content.dt \in ChartTypes THEN
         \* data.columns[0], data.columns[1]
         IF data.kind = "None" THEN
           Fail("AttributeError") /\ UNCHANGED shown
         ELSE IF data.ncols < 2 THEN
           Fail("IndexError") /\ UNCHANGED shown
         ELSE /\ shown' = shown \o <<"chart:" \o content.dt>> \o Expanders
              /\ pc' = "done"
              /\ UNCHANGED fault
       ELSE /\ shown' = shown \o Expanders
            /\ pc' = "done"
            /\ UNCHANGED fault
     ELSE
       \* st.metric(data.columns[0], value=f"{data.values.flatten()[0]:,}")
       IF data.kind = "None" THEN
         Fail("AttributeError") /\ UNCHANGED shown
       ELSE IF data.nrows = 0 THEN
         Fail("IndexError") /\ UNCHANGED shown
       ELSE IF ~data.numeric THEN
         Fail("ValueError") /\ UNCHANGED shown
       ELSE /\ shown' = shown \o <<"metric">> \o Expanders
            /\ pc' = "done"
            /\ UNCHANGED fault
  /\ UNCHANGED <<env, db_conn, db_info, response, content, sql, data,
                 modelCalls, loadCalls, opened, invocations>>

Next ==
  \/ Rerun
  \/ Sidebar
  \/ Connect
  \/ Introspect
  \/ Question
  \/ Synthesize
  \/ Parse
  \/ NormalizeSql
  \/ Execute
  \/ Render

Spec == Init /\ [][Next]_vars

----------------------------------------------------------------------------
(* Properties *)

Shown(w) == \E i \in 1..Len(shown) : shown[i] = w

Count(w) == Cardinality({i \in 1..Len(shown) : shown[i] = w})

Charts == Cardinality({i \in 1..Len(shown) :
                        \E t \in DiagramTypes : shown[i] = "chart:" \o t})

\* The invocation ran to the end of main() or returned, without a fault.
Completed == pc = "done" /\ fault = "none"

\* Position of the first character of element i in the joined statement,
\* minus one.
RECURSIVE Offset(_, _)
Offset(l, i) == IF i = 1 THEN 0 ELSE Offset(l, i - 1) + Len(l[i - 1]) + 1

\* s is the elements of l in order with exactly one blank between neighbours.
IsJoinedBySpaces(s, l) ==
  LET n == Len(l) IN
  /\ Len(s) = IF n = 0 THEN 0 ELSE Offset(l, n) + Len(l[n])
  /\ \A i \in 1..n : \A k \in 1..Len(l[i]) : s[Offset(l, i) + k] = l[i][k]
  /\ \A i \in 2..n : s[Offset(l, i)] = " "

\* C1: when the parsed response has an error key, whatever else it has, the
\* error message is displayed, the invocation returns without a fault, and
\* loadData is not called in that invocation.
C1_ErrorShortCircuits ==
  (content.kind = "object" /\ content.hasError) =>
    /\ Completed
    /\ Shown("error:model")
    /\ loadCalls = <<>>
    /\ data = NoData

\* C1 witness: a response carrying both error and SQL_codes was refused.
C1_Witness ==
  /\ content.kind = "object" /\ content.hasError
  /\ content.sql.kind = "list" /\ content.sql.list # <<>>
  /\ pc = "done" /\ Shown("error:model")

\* C2: when the first choice's content is not JSON, the question ends in the
\* "No valid response" display without a fault and without SQL.
C2_UnparseableIsHandled ==
  (response.api = "choices" /\ response.text.kind = "unparseable" /\ pc = "done") =>
    /\ fault = "none"
    /\ Shown("error:novalid")
    /\ loadCalls = <<>>

\* All configuration fields of a backend that the script connects to are
\* present.
ConfigComplete ==
  \/ env.db_selection \in {"MySQL", "PostgreSQL"} /\ env.fieldsPresent
  \/ env.db_selection = "BigQuery" /\ env.fieldsPresent
       /\ env.keyPathSet /\ env.tablesEnvSet

\* C3: with all configuration fields present, a failing connection (host
\* unreachable or credentials bad) ends the invocation with a connection
\* error shown and no fault, for the relational and the BigQuery backend.
C3_ConnectFailureIsHandled ==
  (pc = "done" /\ ConfigComplete /\ env.db_selection \in {"MySQL", "BigQuery"}
     /\ ~(env.credsOk /\ env.reachable)) =>
    /\ fault = "none"
    /\ Shown("error:connect")

\* C4: the model call is attempted only with a non-null connection handle; an
\* invocation that reaches the question with a question entered and no
\* connection shows "Database isn't connected", calls no model and runs no
\* SQL.
C4_ModelCallNeedsConnection ==
  /\ (pc \in {"synthesize", "parse", "normalize", "execute", "render"}
        \/ modelCalls > 0 \/ response # NoResponse) => db_conn # "None"
  /\ (Completed /\ env.input /\ db_conn = "None") =>
       /\ shown = <<"error:notconnected">>
       /\ modelCalls = 0
       /\ loadCalls = <<>>

\* C4 witness: a question was asked with the PostgreSQL backend selected,
\* which never connects, and the inline error was shown.
C4_Witness ==
  /\ pc = "done" /\ env.input /\ db_conn = "None"
  /\ env.db_selection = "PostgreSQL" /\ env.fieldsPresent
  /\ Shown("error:notconnected") /\ modelCalls = 0

\* C5: over a session, connectDB opens a connection at most once.
C5_OpenedAtMostOnce == opened <= 1

\* C6: for a parsed response without error key whose SQL_codes is a list of
\* strings or a string, loadData is called exactly once, with the elements
\* joined by single blanks in order, respectively with the string unchanged.
C6_SqlNormalization ==
  /\ Len(loadCalls) <= 1
  /\ (pc \in {"render", "done"} /\ content.kind = "object"
        /\ ~content.hasError /\ content.sql.kind # "absent") =>
       /\ Len(loadCalls) = 1
       /\ content.sql.kind = "list" =>
            IsJoinedBySpaces(loadCalls[1], content.sql.list)
       /\ content.sql.kind = "str" => loadCalls[1] = content.sql.str

\* C6 witness: the list ["a", "b "] reached loadData as "a b ".
C6_Witness ==
  /\ pc = "render"
  /\ content.sql.kind = "list"
  /\ content.sql.list = << <<"a">>, <<"b", " ">> >>
  /\ loadCalls = << <<"a", " ", "b", " ">> >>

\* C7: for every backend kind, when the connection is non-null and the query
\* succeeds, loadData returns a table.
C7_LoadDataReturnsTable ==
  (pc = "render" /\ db_conn # "None") => data.kind = "table"

\* Python truthiness of the JSON value under diagram_available.
Truthy(da) ==
  \/ da.t = "bool" /\ da.v = "true"
  \/ da.t = "str" /\ da.v # ""
  \/ da.t = "num" /\ da.v # "0"

\* C8: after a successful query the rendering is decided by diagram_available
\* and diagram_type alone: falsy gives one metric and no chart; truthy gives
\* one chart of the named type when the type is line, bar or pie, no chart
\* otherwise, and no metric; the raw table and raw response are exposed in
\* every case.
C8_RenderingSelection ==
  (pc = "done" /\ data.kind # "unset") =>
    /\ fault = "none"
    /\ Count("expander:data") = 1 /\ Count("expander:response") = 1
    /\ IF Truthy(content.da)
         THEN /\ Count("metric") = 0
              /\ IF content.dt \in ChartTypes
                   THEN Charts = 1 /\ Shown("chart:" \o content.dt)
                   ELSE Charts = 0
         ELSE Count("metric") = 1 /\ Charts = 0

\* C9: a parsed response with a response key and neither error nor SQL_codes
\* ends the question without SQL and without a fault.
C9_DirectAnswerIsHandled ==
  (pc = "done" /\ content.kind = "object" /\ content.hasResponse
     /\ ~content.hasError /\ content.sql.kind = "absent") =>
    /\ fault = "none"
    /\ loadCalls = <<>>

\* C10: for each backend the selector offers, with all its configuration
\* fields present and the database reachable, a question asked in that
\* invocation reaches the model call and not "Database isn't connected".
C10_EveryBackendConnects ==
  (pc = "done" /\ ConfigComplete /\ env.credsOk /\ env.reachable /\ env.input) =>
    /\ db_conn # "None"
    /\ db_info = "schema"
    /\ modelCalls = 1
    /\ ~Shown("error:notconnected")

====
